---- MODULE Spec2Model ----
(***************************************************************************)
(* Cursor pagination of go-pixiv (pixiv/response.go).                      *)
(*                                                                         *)
(* The heap holds the Resp* page values.  Callers run the Next* methods    *)
(* (NextComments, NextNovels, NextIllusts, NextFollowing) concurrently;    *)
(* each method is split at its one blocking point, the call of             *)
(* AppAPI.get.  AppAPI.get and the API methods that make the first         *)
(* request of a traversal are not in response.go: they are modelled from   *)
(* the fetcher contract (get(target, url, extraParams) performs the GET    *)
(* and decodes the JSON body into target in place, or returns a fetch      *)
(* error).  Decoding follows encoding/json on the struct tags of           *)
(* response.go.                                                            *)
(***************************************************************************)
EXTENDS Integers, Sequences, FiniteSets, TLC

VARIABLES
  heap,       \* the page values, by address 1..Len(heap)
  published,  \* the addresses callers hold (returned to them, or built by them)
  alive,      \* the fetchers that have not been torn down
  pc,         \* where each caller is in its Next* call
  r,          \* the receiver of each caller's call
  rn,         \* each caller's local rn
  err,        \* each caller's local err
  ret,        \* the (page, error) pair each caller's call returned
  calls,      \* the get calls each caller's call has issued
  origin,     \* history: the page and the response body each page came from
  frozen,     \* history: each page as it was when it was published
  snap,       \* history: the receiver as it was when the call began
  resp,       \* history: what the caller's own get call answered
  written     \* history: the addresses the caller's call has written

vars == <<heap, published, alive, pc, r, rn, err, ret, calls, origin, frozen, snap, resp, written>>

(* ------------------------------ bounds --------------------------------- *)

\* Number of page values ever allocated in one behaviour.
MaxPages == 3

(* --------------------------- values of the model ----------------------- *)

Callers == {"c1", "c2"}

\* The *AppAPI values: two fetchers, and the nil pointer.
NilApi == "nil"
Fetchers == {"a1", "a2"}

\* nil of type error, and nil of a *Resp... pointer.
NilErr == "nil"
NilPage == 0

\* var ErrEmptyNextURL = errors.New("pixiv: empty next_url field")
ErrEmptyNextURL == "pixiv: empty next_url field"

\* The errors get can return: network failure, HTTP error status (*ErrAppAPI),
\* JSON decode failure, fetcher not usable.
ErrNetwork == "FetchError: network"
ErrHTTP == "FetchError: http 500"
ErrDecode == "FetchError: json decode"
ErrUnavailable == "FetchError: fetcher unavailable"
FetchErrors == {ErrNetwork, ErrHTTP, ErrDecode, ErrUnavailable}

\* The nil passed as get's query argument.
NilParams == "nil"

\* Cursor URLs the server hands out.
URLs == {"https://api/x?cursor=2", "https://api/x?cursor=3"}

(* ------------------------- the Resp* struct types ---------------------- *)

\* The struct types that carry a NextURL field and an api back-reference.
Kinds == {"RespComments", "RespNovels", "RespIllusts", "RespUserPreviews", "RespBookmarkTags"}

\* The resource kinds the specification lists as paginated.
PaginatedKinds == Kinds

\* The pagination method each struct type has.  RespBookmarkTags has none.
NextMethod ==
  [RespComments |-> "NextComments",
   RespNovels |-> "NextNovels",
   RespIllusts |-> "NextIllusts",
   RespUserPreviews |-> "NextFollowing"]

HasAdvance(k) == k \in DOMAIN NextMethod

\* JsonName with the next_url tag of RespIllusts left out, as it is left out
\* of RespBookmarkTags.
JsonNameIllustsUntagged ==
  [RespComments |-> [Items |-> "comments", NextURL |-> "next_url"],
   RespNovels |-> [Items |-> "novels", NextURL |-> "next_url",
                   Ranking |-> "ranking_novels", SearchSpanLimit |-> "search_span_limit"],
   RespIllusts |-> [Items |-> "illusts", NextURL |-> "NextURL",
                    Ranking |-> "ranking_illusts", SearchSpanLimit |-> "search_span_limit"],
   RespUserPreviews |-> [Items |-> "user_previews", NextURL |-> "next_url"],
   RespBookmarkTags |-> [Items |-> "bookmark_tags", NextURL |-> "NextURL"]]

\* JsonName with the api field exported and tagged, so that decoding fills it.
JsonNameApiExported ==
  [RespComments |-> [Items |-> "comments", NextURL |-> "next_url", api |-> "api"],
   RespNovels |-> [Items |-> "novels", NextURL |-> "next_url", api |-> "api",
                   Ranking |-> "ranking_novels", SearchSpanLimit |-> "search_span_limit"],
   RespIllusts |-> [Items |-> "illusts", NextURL |-> "next_url", api |-> "api",
                    Ranking |-> "ranking_illusts", SearchSpanLimit |-> "search_span_limit"],
   RespUserPreviews |-> [Items |-> "user_previews", NextURL |-> "next_url", api |-> "api"],
   RespBookmarkTags |-> [Items |-> "bookmark_tags", NextURL |-> "NextURL", api |-> "api"]]

\* The JSON name of every exported field of each struct type: its `json:"..."`
\* tag, or the Go field name when the field has no tag (NextURL of
\* RespBookmarkTags).  The unexported field api has no JSON name.  Items
\* stands for the struct's item slice (Comments, Novels, Illusts,
\* UserPreviews, BookmarkTags), Ranking for RankingNovels / RankingIllusts.
JsonName ==
  [RespComments |-> [Items |-> "comments", NextURL |-> "next_url"],
   RespNovels |-> [Items |-> "novels", NextURL |-> "next_url",
                   Ranking |-> "ranking_novels", SearchSpanLimit |-> "search_span_limit"],
   RespIllusts |-> [Items |-> "illusts", NextURL |-> "next_url",
                    Ranking |-> "ranking_illusts", SearchSpanLimit |-> "search_span_limit"],
   RespUserPreviews |-> [Items |-> "user_previews", NextURL |-> "next_url"],
   RespBookmarkTags |-> [Items |-> "bookmark_tags", NextURL |-> "NextURL"]]

\* The Go type of each field, as the JSON type it decodes from.
FieldType ==
  [Items |-> "array", NextURL |-> "string", Ranking |-> "array",
   SearchSpanLimit |-> "number", api |-> "string"]

\* The zero value of a struct of type k.
ZeroPage(k) ==
  [kind |-> k, Items |-> <<>>, NextURL |-> "", Ranking |-> <<>>,
   SearchSpanLimit |-> 0, api |-> NilApi]

(* ------------------------------ JSON ----------------------------------- *)

\* JSON values carry their JSON type.
Str(s) == [t |-> "string", v |-> s]
Num(n) == [t |-> "number", v |-> n]
Arr(a) == [t |-> "array", v |-> a]

\* The key under which the server sends the item array of each endpoint.
ItemsKey ==
  [RespComments |-> "comments", RespNovels |-> "novels", RespIllusts |-> "illusts",
   RespUserPreviews |-> "user_previews", RespBookmarkTags |-> "bookmark_tags"]

\* The response bodies of the model, JSON objects as functions from keys:
\* a page with a cursor, a last page with next_url "", a last page without
\* next_url, an object with another cursor, a span limit and a stray "api"
\* key, and an object whose next_url is a number (a decode failure after
\* the items were decoded).
Bodies(k) ==
  { (ItemsKey[k] :> Arr(<<"A", "B">>)) @@ ("next_url" :> Str("https://api/x?cursor=2")),
    (ItemsKey[k] :> Arr(<<"C">>)) @@ ("next_url" :> Str("")),
    (ItemsKey[k] :> Arr(<<"C">>)),
    (ItemsKey[k] :> Arr(<<"A">>)) @@ ("next_url" :> Str("https://api/x?cursor=3"))
       @@ ("api" :> Str("a2")) @@ ("search_span_limit" :> Num(3)),
    (ItemsKey[k] :> Arr(<<"A">>)) @@ ("next_url" :> Num(7)) }

AllBodies == UNION {Bodies(k) : k \in Kinds}

\* The value of the next_url field of a response body, "" when it is missing
\* or is no string.
NextUrlOf(body) ==
  IF "next_url" \in DOMAIN body /\ body["next_url"].t = "string"
  THEN body["next_url"].v ELSE ""

\* encoding/json matches an object key to a field name exactly or under case
\* folding; an underscore is a character like any other.
Fold(s) == IF s = "NextURL" THEN "nexturl" ELSE s

KeysFor(k, f, body) ==
  IF f \in DOMAIN JsonName[k]
  THEN {key \in DOMAIN body : Fold(key) = Fold(JsonName[k][f])}
  ELSE {}

\* json.Unmarshal of body into the struct page: a field is set when the
\* object has a key matching its JSON name and the value has the field's
\* type; every other field, api among them, keeps its value.
Decode(page, body) ==
  [f \in DOMAIN page |->
     LET ks == KeysFor(page.kind, f, body) IN
       IF ks # {} /\ body[CHOOSE key \in ks : TRUE].t = FieldType[f]
       THEN body[CHOOSE key \in ks : TRUE].v
       ELSE page[f]]

\* json.Unmarshal reports a value of the wrong type (after decoding the rest).
DecodeFails(page, body) ==
  \E f \in DOMAIN JsonName[page.kind] :
     \E key \in KeysFor(page.kind, f, body) : body[key].t # FieldType[f]

NoBody == [key \in {"none"} |-> Str("")]

(* ------------------------- the Next* methods --------------------------- *)

\* A guard that never fires.
IsEmptyCursorNever(page) == FALSE

\* if r.NextURL == ""
IsEmptyCursor(page) == page.NextURL = ""

\* return nil, ErrEmptyNextURL
EmptyResult == [page |-> NilPage, err |-> ErrEmptyNextURL]

\* A page allocated in one shared place instead of a new one per call.
AllocShared(h) == 1

\* The address of the page a composite literal &Resp...{...} allocates.
Alloc(h) == Len(h) + 1

\* rn := &Resp...{api: r.api}
NewPage(page) == [ZeroPage(page.kind) EXCEPT !.api = page.api]

\* get decoding into the receiver.
GetTargetReceiver(p, n) == p

\* The first argument of r.api.get(rn, r.NextURL, nil).
GetTarget(p, n) == n

\* A cursor rebuilt from the endpoint instead of replayed.
GetURLRebuilt(page) == "https://api/x?cursor=2"

\* The second argument of r.api.get(rn, r.NextURL, nil).
GetURL(page) == page.NextURL

\* The third argument of r.api.get(rn, r.NextURL, nil).
GetParams == NilParams

\* A return that wraps the fetch error in an error of its own.
ReturnOfWrapped(n, e) ==
  IF e # NilErr THEN [page |-> NilPage, err |-> "pixiv: next page: " \o e]
  ELSE [page |-> n, err |-> NilErr]

\* A return that hands out rn together with the error.
ReturnOfKeepPage(n, e) == [page |-> n, err |-> e]

\* if err != nil { return nil, err }; return rn, nil
ReturnOf(n, e) ==
  IF e # NilErr THEN [page |-> NilPage, err |-> e]
  ELSE [page |-> n, err |-> NilErr]

Store(h, a, v) == IF a = Len(h) + 1 THEN Append(h, v) ELSE [h EXCEPT ![a] = v]

Addrs == 1..Len(heap)

Roots == {p \in Addrs : origin[p].from = NilPage}

NoResult == [page |-> NilPage, err |-> NilErr]
NoResp == [err |-> NilErr, body |-> NoBody, answered |-> FALSE, usable |-> TRUE]

Usable(a) == a # NilApi /\ a \in alive

Init ==
  /\ heap = <<>>
  /\ origin = <<>>
  /\ frozen = <<>>
  /\ published = {}
  /\ alive = Fetchers
  /\ pc = [c \in Callers |-> "idle"]
  /\ r = [c \in Callers |-> NilPage]
  /\ rn = [c \in Callers |-> NilPage]
  /\ err = [c \in Callers |-> NilErr]
  /\ ret = [c \in Callers |-> NoResult]
  /\ snap = [c \in Callers |-> ZeroPage("RespComments")]
  /\ calls = [c \in Callers |-> <<>>]
  /\ resp = [c \in Callers |-> NoResp]
  /\ written = [c \in Callers |-> {}]

callerVars == <<pc, r, rn, err, ret, snap, calls, resp, written>>

\* The first request of a traversal: an API method allocates a page bound
\* to its fetcher, get decodes the response into it, and the caller receives
\* it.  (A first request that fails hands the caller no page.)  A behaviour
\* has one first page; the callers share it and every page that comes of it.
InitialFetch(k, a, b) ==
  /\ Len(heap) < MaxPages
  /\ Roots = {}
  /\ Usable(a)
  /\ LET page == Decode([ZeroPage(k) EXCEPT !.api = a], b) IN
       /\ ~DecodeFails(ZeroPage(k), b)
       /\ heap' = Append(heap, page)
       /\ frozen' = Append(frozen, page)
       /\ origin' = Append(origin, [from |-> NilPage, decoded |-> TRUE, body |-> b])
       /\ published' = published \cup {Len(heap) + 1}
  /\ UNCHANGED <<alive, callerVars>>

\* A caller builds a page value itself, &Resp...{NextURL: u}: the exported
\* fields are the caller's to set, the unexported api stays nil.
Literal(k, u) ==
  /\ Len(heap) < MaxPages
  /\ Roots = {}
  /\ LET page == [ZeroPage(k) EXCEPT !.NextURL = u] IN
       /\ heap' = Append(heap, page)
       /\ frozen' = Append(frozen, page)
       /\ origin' = Append(origin, [from |-> NilPage, decoded |-> FALSE, body |-> NoBody])
       /\ published' = published \cup {Len(heap) + 1}
  /\ UNCHANGED <<alive, callerVars>>

\* A fetcher is torn down.
TearDown(a) ==
  /\ a \in alive
  /\ alive' = alive \ {a}
  /\ UNCHANGED <<heap, origin, frozen, published, callerVars>>

\* Next* on a page whose NextURL is empty: the whole call.
NextEmpty(c, p) ==
  /\ pc[c] \in {"idle", "done"}
  /\ p \in published
  /\ HasAdvance(heap[p].kind)
  /\ IsEmptyCursor(heap[p])
  /\ pc' = [pc EXCEPT ![c] = "done"]
  /\ r' = [r EXCEPT ![c] = p]
  /\ snap' = [snap EXCEPT ![c] = heap[p]]
  /\ ret' = [ret EXCEPT ![c] = EmptyResult]
  /\ rn' = [rn EXCEPT ![c] = NilPage]
  /\ err' = [err EXCEPT ![c] = NilErr]
  /\ calls' = [calls EXCEPT ![c] = <<>>]
  /\ resp' = [resp EXCEPT ![c] = NoResp]
  /\ written' = [written EXCEPT ![c] = {}]
  /\ UNCHANGED <<heap, origin, frozen, published, alive>>

\* Next* on a page with a NextURL, up to the call of get: rn is allocated
\* and the request is issued.
NextCall(c, p) ==
  /\ pc[c] \in {"idle", "done"}
  /\ p \in published
  /\ HasAdvance(heap[p].kind)
  /\ ~IsEmptyCursor(heap[p])
  /\ Len(heap) < MaxPages
  /\ LET n == Alloc(heap) IN
       /\ heap' = Store(heap, n, NewPage(heap[p]))
       /\ frozen' = Store(frozen, n, frozen[p])
       /\ origin' = Store(origin, n, [from |-> p, decoded |-> FALSE, body |-> NoBody])
       /\ rn' = [rn EXCEPT ![c] = n]
       /\ written' = [written EXCEPT ![c] = {n}]
       /\ calls' = [calls EXCEPT ![c] =
            Append(<<>>, [target |-> GetTarget(p, n), url |-> GetURL(heap[p]),
                       params |-> GetParams, api |-> heap[p].api])]
  /\ pc' = [pc EXCEPT ![c] = "get"]
  /\ r' = [r EXCEPT ![c] = p]
  /\ snap' = [snap EXCEPT ![c] = heap[p]]
  /\ err' = [err EXCEPT ![c] = NilErr]
  /\ ret' = [ret EXCEPT ![c] = NoResult]
  /\ resp' = [resp EXCEPT ![c] = NoResp]
  /\ UNCHANGED <<published, alive>>

\* The rest of Next* once get has returned e: the error check and the return.
Return(c, e) ==
  LET res == ReturnOf(rn[c], e) IN
    /\ err' = [err EXCEPT ![c] = e]
    /\ ret' = [ret EXCEPT ![c] = res]
    /\ published' = published \cup ({res.page} \ {NilPage})
    /\ frozen' = IF res.page = NilPage THEN frozen
                 ELSE [frozen EXCEPT ![res.page] = heap'[res.page]]
    /\ pc' = [pc EXCEPT ![c] = "done"]

\* get receives a response body and decodes it into its target; Next* returns.
GetBody(c, b) ==
  /\ pc[c] = "get"
  /\ LET call == calls[c][Len(calls[c])]
         t == call.target
         e == IF DecodeFails(heap[t], b) THEN ErrDecode ELSE NilErr IN
       /\ Usable(call.api)
       /\ b \in Bodies(heap[t].kind)
       /\ heap' = [heap EXCEPT ![t] = Decode(@, b)]
       /\ origin' = [origin EXCEPT ![t].decoded = TRUE, ![t].body = b]
       /\ resp' = [resp EXCEPT ![c] =
            [err |-> e, body |-> b, answered |-> TRUE, usable |-> TRUE]]
       /\ written' = [written EXCEPT ![c] = @ \cup {t}]
       /\ Return(c, e)
  /\ UNCHANGED <<alive, r, rn, snap, calls>>

\* get fails before any body is decoded (network failure, HTTP error
\* status); Next* returns.
GetError(c, e) ==
  /\ pc[c] = "get"
  /\ Usable(calls[c][Len(calls[c])].api)
  /\ resp' = [resp EXCEPT ![c] =
       [err |-> e, body |-> NoBody, answered |-> FALSE, usable |-> TRUE]]
  /\ heap' = heap
  /\ Return(c, e)
  /\ UNCHANGED <<origin, alive, r, rn, snap, calls, written>>

\* get on a nil or torn-down fetcher; Next* returns.
GetUnavailable(c) ==
  /\ pc[c] = "get"
  /\ ~Usable(calls[c][Len(calls[c])].api)
  /\ resp' = [resp EXCEPT ![c] =
       [err |-> ErrUnavailable, body |-> NoBody, answered |-> FALSE, usable |-> FALSE]]
  /\ heap' = heap
  /\ Return(c, ErrUnavailable)
  /\ UNCHANGED <<origin, alive, r, rn, snap, calls, written>>

Next ==
  \/ \E k \in Kinds, a \in Fetchers : \E b \in Bodies(k) : InitialFetch(k, a, b)
  \/ \E k \in Kinds, u \in URLs \cup {""} : Literal(k, u)
  \/ \E a \in Fetchers : TearDown(a)
  \/ \E c \in Callers, p \in Addrs : NextEmpty(c, p)
  \/ \E c \in Callers, p \in Addrs : NextCall(c, p)
  \/ \E c \in Callers, b \in AllBodies : GetBody(c, b)
  \/ \E c \in Callers, e \in {ErrNetwork, ErrHTTP} : GetError(c, e)
  \/ \E c \in Callers : GetUnavailable(c)

Spec == Init /\ [][Next]_vars

(* ------------------------------ properties ----------------------------- *)

Started(c) == pc[c] # "idle"
Returned(c) == pc[c] = "done"

RECURSIVE RootOf(_)
RootOf(p) == IF origin[p].from = NilPage THEN p ELSE RootOf(origin[p].from)

\* C1: a Next* call on a page whose NextURL is empty returns no page and the
\* one error value ErrEmptyNextURL, whatever the page kind, and issues no get
\* call (and writes nothing).
C1_EmptyCursorFailsFast ==
  \A c \in Callers :
    (Started(c) /\ snap[c].NextURL = "") =>
       /\ Returned(c)
       /\ ret[c] = [page |-> NilPage, err |-> ErrEmptyNextURL]
       /\ calls[c] = <<>>
       /\ written[c] = {}

C1_Witness ==
  \E c \in Callers :
    /\ Returned(c) /\ snap[c].NextURL = "" /\ snap[c].kind = "RespUserPreviews"
    /\ ret[c].err = ErrEmptyNextURL /\ calls[c] = <<>>

\* C2: in a traversal whose fetches succeed, a call on a page decoded from a
\* response with a next_url never reports the end of the traversal and
\* returns a page newer than every page of the chain so far, decoded from
\* the call's own response; a call on a page decoded from a response without
\* next_url returns ErrEmptyNextURL and no page.
C2_ChainEndsAtEmptyNextURL ==
  \A c \in Callers :
    (Returned(c) /\ origin[r[c]].decoded) =>
       LET b == origin[r[c]].body IN
         /\ NextUrlOf(b) = "" =>
              ret[c] = [page |-> NilPage, err |-> ErrEmptyNextURL]
         /\ NextUrlOf(b) # "" =>
              /\ ret[c].err # ErrEmptyNextURL
              /\ resp[c].err = NilErr =>
                   /\ ret[c].err = NilErr
                   /\ ret[c].page > r[c]
                   /\ origin[ret[c].page].from = r[c]
                   /\ origin[ret[c].page].body = resp[c].body
                   /\ heap[ret[c].page].NextURL = NextUrlOf(resp[c].body)

\* A chain p0 -> p1 -> end: p1 was returned by a call on p0, its response had
\* no next_url, and the call on p1 returned ErrEmptyNextURL.
C2_Witness ==
  \E c \in Callers :
    /\ Returned(c) /\ ret[c].err = ErrEmptyNextURL
    /\ origin[r[c]].from # NilPage
    /\ origin[origin[r[c]].from].decoded
    /\ NextUrlOf(origin[origin[r[c]].from].body) # ""

\* C3: every call returns either a page and no error or an error and no
\* page; when get returned an error, the call returns that very error and no
\* page, also when get had begun to fill the new page.
C3_FetchErrorPropagates ==
  \A c \in Callers :
    Returned(c) =>
       /\ (ret[c].page = NilPage) # (ret[c].err = NilErr)
       /\ resp[c].err # NilErr => ret[c] = [page |-> NilPage, err |-> resp[c].err]

C3_Witness ==
  \E c \in Callers :
    /\ Returned(c) /\ resp[c].err = ErrDecode
    /\ heap[rn[c]].Items # <<>>
    /\ ret[c] = [page |-> NilPage, err |-> ErrDecode]

\* C5: a call on a page with a NextURL issues exactly one get call, whether
\* it succeeds or fails; its URL is the page's NextURL, its target the page
\* the call created, its query argument nil.
C5_OneGetOfTheCursor ==
  \A c \in Callers :
    (Started(c) /\ snap[c].NextURL # "") =>
       /\ Len(calls[c]) = 1
       /\ calls[c][1].url = snap[c].NextURL
       /\ calls[c][1].params = NilParams
       /\ calls[c][1].target = rn[c]
       /\ rn[c] # r[c]
       /\ origin[rn[c]].from = r[c]

C5_Witness ==
  \E c \in Callers :
    /\ Returned(c) /\ resp[c].err = ErrNetwork
    /\ Len(calls[c]) = 1
    /\ calls[c][1].url = "https://api/x?cursor=3"

\* C6: a call leaves its receiver as it was when the call began, whatever
\* the call returns; two calls on the same page issue their get for the
\* same cursor.
C6_ReceiverUnchanged ==
  /\ \A c \in Callers : Started(c) => heap[r[c]] = snap[c]
  /\ \A c, d \in Callers :
       (Started(c) /\ Started(d) /\ r[c] = r[d] /\ calls[c] # <<>>) =>
          /\ calls[d] # <<>>
          /\ calls[d][1].url = calls[c][1].url

\* A call on a page failed, and a second call on the same page is in flight.
C6_Witness ==
  \E c, d \in Callers :
    /\ c # d /\ r[c] = r[d]
    /\ Returned(c) /\ ret[c].err \in FetchErrors
    /\ pc[d] = "get"

\* C7: every page a call created holds the api of the page it was created
\* from, before and after decoding, and so the api of the first page of its
\* chain.
C7_FetcherBindingPersists ==
  \A p \in Addrs :
    origin[p].from # NilPage =>
       /\ heap[p].api = heap[origin[p].from].api
       /\ heap[p].api = heap[RootOf(p)].api

\* A page returned by a call, decoded from a body with a stray "api" key.
C7_Witness ==
  \E p \in published :
    /\ origin[p].from # NilPage /\ origin[origin[p].from].from # NilPage
    /\ "api" \in DOMAIN origin[p].body
    /\ heap[p].api = "a1"

C4_EveryPaginatedKindAdvances ==
  \A p \in published : heap[p].kind \in PaginatedKinds => HasAdvance(heap[p].kind)

\* C10: for every page kind, the NextURL of a page decoded from a response is
\* the value of the response's next_url field, and is empty when the field is
\* empty or missing.
C10_NextURLIsNextUrlField ==
  \A p \in Addrs : origin[p].decoded => heap[p].NextURL = NextUrlOf(origin[p].body)

====
